---- MODULE Spec2Model ----
(***************************************************************************)
(* Model of the vscode-pgf conversion pipeline (src/src/extension.ts):     *)
(* compilePgfToPdf, its nested extractMatplotlibPreamble, renderPdfToPng   *)
(* and PgfViewerProvider.resolveCustomEditor.                              *)
(*                                                                         *)
(* A request is one call of resolveCustomEditor.  An action is one awaited  *)
(* call (mkdtemp, copyFile, readFile, writeFile, execFileP, executeCommand) *)
(* together with the synchronous code that runs when it settles, up to the *)
(* next await; requests interleave at their awaits.  The outcome of every  *)
(* awaited call is chosen by the environment.                              *)
(*                                                                         *)
(* Strings are sequences of one-character strings.  In the source text of  *)
(* a .pgf file the literal phrase "Matplotlib used the following preamble" *)
(* is the single token "M"; "%" is the comment character, " " stands for   *)
(* any whitespace a line can hold and "x" for any other character.         *)
(***************************************************************************)
EXTENDS Integers, Sequences, FiniteSets, TLC

\* ------------------------------------------------------------------ bounds
\* requests (calls of resolveCustomEditor) that may be in flight together
NumReq == 2
\* lines of a source text in the extraction specification
MaxLines == 4
\* how far a pdflatex log may exceed the excerpt length
MaxOver == 2

\* ------------------------------------------------- program constants
\* log.length > 200, log.slice(0,200)
ShortMax == 200

Ellipsis == <<".", ".", ".">>

\* ------------------------------------------------------- string helpers
IsSpace(c) == c = " " \/ c = "\n"

\* first index >= i of s that does not hold character c
RECURSIVE SkipChar(_, _, _)
SkipChar(s, i, c) ==
  IF i <= Len(s) /\ s[i] = c THEN SkipChar(s, i + 1, c) ELSE i

\* first index >= i of s that does not hold whitespace
RECURSIVE SkipSpace(_, _)
SkipSpace(s, i) ==
  IF i <= Len(s) /\ IsSpace(s[i]) THEN SkipSpace(s, i + 1) ELSE i

\* last index <= i of s that does not hold whitespace
RECURSIVE SkipSpaceBack(_, _)
SkipSpaceBack(s, i) ==
  IF i >= 1 /\ IsSpace(s[i]) THEN SkipSpaceBack(s, i - 1) ELSE i

\* String.prototype.trim
Trim(s) ==
  LET a == SkipSpace(s, 1)
      b == SkipSpaceBack(s, Len(s))
  IN  IF a > b THEN <<>> ELSE SubSeq(s, a, b)

\* Array.prototype.join('\n')
RECURSIVE JoinLines(_)
JoinLines(out) ==
  IF Len(out) = 0 THEN <<>>
  ELSE IF Len(out) = 1 THEN out[1]
  ELSE out[1] \o <<"\n">> \o JoinLines(Tail(out))

\* /^%+\s*Matplotlib used the following preamble/.test(line)
MarkerTest(line) ==
  LET p == SkipChar(line, 1, "%")
      q == SkipSpace(line, p)
  IN  p > 1 /\ q <= Len(line) /\ line[q] = "M"

\* /^%+\s{3}/.test(line)
IndentTest(line) ==
  LET p == SkipChar(line, 1, "%")
  IN  /\ p > 1
      /\ p + 2 <= Len(line)
      /\ IsSpace(line[p]) /\ IsSpace(line[p + 1]) /\ IsSpace(line[p + 2])

\* line.replace(/^\s*%+\s*/, '')
StripComment(line) ==
  LET a == SkipSpace(line, 1)
      p == SkipChar(line, a, "%")
      q == SkipSpace(line, p)
  IN  IF p > a THEN SubSeq(line, q, Len(line)) ELSE line

\* string | null
Null == [null |-> TRUE, text |-> <<>>]
Str(s) == [null |-> FALSE, text |-> s]

\* the first loop: index (0-based) of the line after the first marker, or -1
RECURSIVE FindStart(_, _)
FindStart(lines, i) ==
  IF i >= Len(lines) THEN -1
  ELSE IF MarkerTest(lines[i + 1]) THEN i + 1
  ELSE FindStart(lines, i + 1)

\* the second loop with `continue` in place of `break`
RECURSIVE CollectLinesContinue(_, _, _)
CollectLinesContinue(lines, i, out) ==
  IF i >= Len(lines) THEN out
  ELSE IF ~IndentTest(lines[i + 1]) THEN CollectLinesContinue(lines, i + 1, out)
  ELSE CollectLinesContinue(lines, i + 1, Append(out, StripComment(lines[i + 1])))

\* the second loop: push the de-commented lines, break at the first mismatch
RECURSIVE CollectLines(_, _, _)
CollectLines(lines, i, out) ==
  IF i >= Len(lines) THEN out
  ELSE IF ~IndentTest(lines[i + 1]) THEN out
  ELSE CollectLines(lines, i + 1, Append(out, StripComment(lines[i + 1])))

extractMatplotlibPreamble(lines) ==
  LET start == FindStart(lines, 0)
  IN  IF start = -1 THEN Null
      ELSE LET result == Trim(JoinLines(CollectLines(lines, start, <<>>)))
           IN  IF Len(result) > 0 THEN Str(result) ELSE Null

\* ---------------------------------------------------------------- paths
\* a directory: the folder of a user's project or a directory under os.tmpdir()
HomeDir(n) == [root |-> "home", id |-> n]
TmpDir(n) == [root |-> "tmp", id |-> n]
NoDir == [root |-> "none", id |-> 0]

\* the names 'vscode-pgf-XXXXXX': one for every request there can be
TmpPool == {TmpDir(n) : n \in 1..NumReq}

\* path.join(dir, base + '.' + ext)
Path(dir, base, ext) == [dir |-> dir, base |-> base, ext |-> ext]

\* the files a user can open in the viewer
SrcPlot == Path(HomeDir(1), "fig", "pgf")
SrcPlain == Path(HomeDir(2), "fig", "pgf")
Sources == {SrcPlot, SrcPlain}
NoPath == Path(NoDir, "", "")

\* what Matplotlib wrote into the first file: a marked preamble, then the drawing
PlotText == << <<"%", "%", " ", "M">>, <<"%", "%", " ", " ", " ", "x">>, <<"x">> >>
PlainText == << <<"%", " ", "x">>, <<"x">> >>

\* the user's files before any request
InitFs ==
  (SrcPlot :> [kind |-> "src", lines |-> PlotText])
  @@ (SrcPlain :> [kind |-> "src", lines |-> PlainText])

Exists(files, p) == p \in DOMAIN files

WriteTo(files, p, c) == (p :> c) @@ files

\* ----------------------------------------------------------- the requests
Reqs == 1..NumReq

VARIABLES
  pc,          \* where each call of resolveCustomEditor stands
  srcPath,     \* document.uri.fsPath
  tmpRoot,     \* the directory mkdtemp returned
  preamble,    \* matplotlibPreamble
  err,         \* the error execFileP('pdflatex') rejected with
  log,         \* the log read in the catch of execFileP('pdflatex')
  short,       \* the excerpt in the 'Failed to build PGF' error
  pngPath,     \* what renderPdfToPng returned
  html,        \* webviewPanel.webview.html
  opened,      \* the image 'vscode.open' showed
  thrown,      \* the error resolveCustomEditor rejected with
  commands,    \* the execFileP calls made, in order
  reads,       \* the paths each request read
  writes,      \* the paths each request wrote
  dirs,        \* the directories under os.tmpdir()
  fs,          \* the files on disk
  text,        \* extraction alone: the lines of the source text
  result       \* extraction alone: what extractMatplotlibPreamble returned

vars == <<pc, srcPath, tmpRoot, preamble, err, log, short, pngPath, html, opened,
          thrown, commands, reads, writes, dirs, fs, text, result>>

extractVars == <<text, result>>
pipeVars == <<pc, srcPath, tmpRoot, preamble, err, log, short, pngPath, html, opened,
              thrown, commands, reads, writes, dirs, fs>>

NoErr == [name |-> "none", text |-> <<>>]
NoPage == [page |-> "none", msg |-> <<>>]
NotRun == [null |-> TRUE, text |-> <<"?">>]

InitPipe ==
  /\ pc = [r \in Reqs |-> "idle"]
  /\ srcPath = [r \in Reqs |-> NoPath]
  /\ tmpRoot = [r \in Reqs |-> NoDir]
  /\ preamble = [r \in Reqs |-> Null]
  /\ err = [r \in Reqs |-> NoErr]
  /\ log = [r \in Reqs |-> <<>>]
  /\ short = [r \in Reqs |-> <<>>]
  /\ pngPath = [r \in Reqs |-> NoPath]
  /\ html = [r \in Reqs |-> NoPage]
  /\ opened = [r \in Reqs |-> NoPath]
  /\ thrown = [r \in Reqs |-> NoErr]
  /\ commands = [r \in Reqs |-> <<>>]
  /\ reads = [r \in Reqs |-> {}]
  /\ writes = [r \in Reqs |-> {}]
  /\ dirs = {}
  /\ fs = InitFs

Init ==
  /\ InitPipe
  /\ text = <<>>
  /\ result = NotRun

\* ------------------------------------------------- paths of one request
\* path.basename(srcPath, path.extname(srcPath))
Base(r) == srcPath[r].base
\* path.join(tmpRoot, path.basename(srcPath))
DstSrc(r) == Path(tmpRoot[r], Base(r), srcPath[r].ext)
TexPath(r) == Path(tmpRoot[r], Base(r), "tex")
LogPath(r) == Path(tmpRoot[r], Base(r), "log")
PdfPath(r) == Path(tmpRoot[r], Base(r), "pdf")
\* path.join(tmpRoot, `${base}.png`), which is also outPrefix + '.png'
PngPath(r) == Path(tmpRoot[r], Base(r), "png")

\* ------------------------------------------------------------- errors
Error(name, txt) == [name |-> name, text |-> txt]

\* no outer try: the error leaves resolveCustomEditor
OuterCatchRethrow(r, e) ==
  /\ html' = html
  /\ thrown' = [thrown EXCEPT ![r] = e]
  /\ pc' = [pc EXCEPT ![r] = "done"]

\* the catch of resolveCustomEditor's outer try: the error page
OuterCatch(r, e) ==
  /\ html' = [html EXCEPT ![r] = [page |-> "error", msg |-> e.text]]
  /\ thrown' = thrown
  /\ pc' = [pc EXCEPT ![r] = "done"]

\* the catch of the inner try: the page that links to the PDF
InnerCatch(r, e) ==
  /\ html' = [html EXCEPT ![r] = [page |-> "pdfOnly", msg |-> e.text]]
  /\ thrown' = thrown
  /\ pc' = [pc EXCEPT ![r] = "done"]

\* the next await is reached with nothing thrown
Goto(r, l) ==
  /\ pc' = [pc EXCEPT ![r] = l]
  /\ UNCHANGED <<html, thrown>>

Record(r, c) == commands' = [commands EXCEPT ![r] = Append(@, c)]
Reading(r, ps) == reads' = [reads EXCEPT ![r] = @ \cup ps]
Writing(r, ps) == writes' = [writes EXCEPT ![r] = @ \cup ps]

\* ------------------------------------------------ resolveCustomEditor
\* the host calls resolveCustomEditor for a document
ResolveCustomEditor(r) ==
  /\ pc[r] = "idle"
  /\ \E src \in Sources : srcPath' = [srcPath EXCEPT ![r] = src]
  /\ Goto(r, "mkdtemp")
  /\ UNCHANGED <<tmpRoot, preamble, err, log, short, pngPath, opened, commands,
                 reads, writes, dirs, fs>>

\* ---------------------------------------------------- compilePgfToPdf
\* a fixed directory name in place of a freshly made one
AnyDirs(taken) == {TmpDir(n) : n \in {NumReq}}

\* the name mkdtemp returns: never that of a directory that exists.  The names
\* are interchangeable, so the unused ones are handed out in order; which
\* request gets which name still depends on the interleaving.
FreshDirs(taken) ==
  {d \in TmpPool \ taken : \A e \in TmpPool \ taken : d.id <= e.id}

Mkdtemp(r) ==
  /\ pc[r] = "mkdtemp"
  /\ \/ \E d \in FreshDirs(dirs) :
          /\ dirs' = dirs \cup {d}
          /\ tmpRoot' = [tmpRoot EXCEPT ![r] = d]
          /\ Goto(r, "copyFile")
     \/ /\ OuterCatch(r, Error("Error", <<"ENOSPC">>))
        /\ UNCHANGED <<dirs, tmpRoot>>
  /\ UNCHANGED <<srcPath, preamble, err, log, short, pngPath, opened, commands,
                 reads, writes, fs>>

CopyFile(r) ==
  /\ pc[r] = "copyFile"
  /\ \/ /\ Exists(fs, srcPath[r])
        /\ fs' = WriteTo(fs, DstSrc(r), fs[srcPath[r]])
        /\ Reading(r, {srcPath[r]})
        /\ Writing(r, {DstSrc(r)})
        /\ Goto(r, "readFile")
     \/ /\ OuterCatch(r, Error("Error", <<"EACCES">>))
        /\ UNCHANGED <<fs, reads, writes>>
  /\ UNCHANGED <<srcPath, tmpRoot, preamble, err, log, short, pngPath, opened,
                 commands, dirs>>

\* readFile(dstSrc) with its empty catch, then extractMatplotlibPreamble
ReadFile(r, outcomes) ==
  /\ pc[r] = "readFile"
  /\ \E ok \in outcomes :
       LET srcText == IF ok /\ Exists(fs, DstSrc(r)) /\ fs[DstSrc(r)].kind = "src"
                      THEN fs[DstSrc(r)].lines ELSE <<>>
       IN  preamble' = [preamble EXCEPT ![r] = extractMatplotlibPreamble(srcText)]
  /\ Reading(r, {DstSrc(r)})
  /\ Goto(r, "writeFile")
  /\ UNCHANGED <<srcPath, tmpRoot, err, log, short, pngPath, opened, commands,
                 writes, dirs, fs>>

\* the template of line 71: the preamble, when there is one, and \input{srcPath}
TexContent(r) == [kind |-> "tex", preamble |-> preamble[r], input |-> srcPath[r]]

WriteFile(r) ==
  /\ pc[r] = "writeFile"
  /\ \/ /\ fs' = WriteTo(fs, TexPath(r), TexContent(r))
        /\ Writing(r, {TexPath(r)})
        /\ Goto(r, "pdflatex")
     \/ /\ OuterCatch(r, Error("Error", <<"EIO">>))
        /\ UNCHANGED <<fs, writes>>
  /\ UNCHANGED <<srcPath, tmpRoot, preamble, err, log, short, pngPath, opened,
                 commands, reads, dirs>>

\* ------------------------------------------------------------ pdflatex
\* a log of n characters
LogText(n) == [i \in 1..n |-> IF i % 2 = 1 THEN "a" ELSE "b"]

\* the lengths of the logs pdflatex writes
LogLens == {0, 1, ShortMax} \cup ((ShortMax + 1)..(ShortMax + MaxOver))

\* the stderr that execFile appends to 'Command failed: pdflatex ...'
StderrLens == {0, ShortMax + MaxOver + 1}

\* how a run of pdflatex can end: it cannot be spawned, or it exits with a
\* status, having written a log (of some length) or none and a PDF or none
PdflatexOutcomes ==
  {[exit |-> "spawn", log |-> -1, pdf |-> FALSE, stderr |-> 0]}
  \cup [exit : {"nonzero"}, log : LogLens \cup {-1}, pdf : BOOLEAN, stderr : StderrLens]
  \cup [exit : {"zero"}, log : LogLens \cup {-1}, pdf : BOOLEAN, stderr : {0}]

\* err.message of the rejection of execFileP
ExecError(cmd, o) ==
  IF o.exit = "spawn" THEN Error("Error", <<"spawn", " ", cmd, " ", "ENOENT">>)
  ELSE Error("Error", <<"Command failed: ", cmd, "\n">> \o [i \in 1..o.stderr |-> "e"])

\* the existence check skipped
PdfProducedUnchecked(files, p) == TRUE

\* fs.existsSync(pdfPath)
PdfProduced(files, p) == Exists(files, p)

Pdflatex(r, outcomes) ==
  /\ pc[r] = "pdflatex"
  /\ \E o \in outcomes :
       LET fs1 == IF o.log >= 0
                  THEN WriteTo(fs, LogPath(r), [kind |-> "log", text |-> LogText(o.log)])
                  ELSE fs
           fs2 == IF o.pdf THEN WriteTo(fs1, PdfPath(r), [kind |-> "pdf", of |-> TexPath(r)])
                  ELSE fs1
       IN  /\ fs' = fs2
           /\ Record(r, [cmd |-> "pdflatex", exit |-> o.exit, wrote |-> o.pdf,
                         exists |-> Exists(fs2, PdfPath(r))])
           /\ Reading(r, {TexPath(r), srcPath[r]})
           /\ Writing(r, (IF o.log >= 0 THEN {LogPath(r)} ELSE {})
                         \cup (IF o.pdf THEN {PdfPath(r)} ELSE {}))
           /\ IF o.exit # "zero"
              THEN /\ err' = [err EXCEPT ![r] = ExecError("pdflatex", o)]
                   /\ Goto(r, "readLog")
              ELSE /\ err' = err
                   /\ IF PdfProduced(fs2, PdfPath(r))
                      THEN Goto(r, "pdftocairo")
                      ELSE OuterCatch(r, Error("Error", <<"PDF not produced">>))
  /\ UNCHANGED <<srcPath, tmpRoot, preamble, log, short, pngPath, opened, dirs>>

\* String(err.message || err)
ErrString(e) == IF Len(e.text) > 0 THEN e.text ELSE <<e.name>>

\* the excerpt with `>=` in place of `>`
ShortOfAtLeast(l, e) ==
  IF Len(l) > 0 /\ Len(l) >= ShortMax THEN SubSeq(l, 1, ShortMax) \o Ellipsis
  ELSE IF Len(l) > 0 THEN l
  ELSE ErrString(e)

\* (log && log.length > 200) ? log.slice(0,200) + '...' : log || String(err.message || err)
ShortOf(l, e) ==
  IF Len(l) > 0 /\ Len(l) > ShortMax THEN SubSeq(l, 1, ShortMax) \o Ellipsis
  ELSE IF Len(l) > 0 THEN l
  ELSE ErrString(e)

\* the catch of execFileP('pdflatex'): read the log, throw the excerpt
ReadLog(r) ==
  /\ pc[r] = "readLog"
  /\ \E ok \in BOOLEAN :
       LET l == IF ok /\ Exists(fs, LogPath(r)) /\ fs[LogPath(r)].kind = "log"
                THEN fs[LogPath(r)].text ELSE <<>>
           s == ShortOf(l, err[r])
       IN  /\ log' = [log EXCEPT ![r] = l]
           /\ short' = [short EXCEPT ![r] = s]
           /\ OuterCatch(r, Error("Error", <<"Failed to build PGF: ">> \o s))
  /\ Reading(r, {LogPath(r)})
  /\ UNCHANGED <<srcPath, tmpRoot, preamble, err, pngPath, opened, commands,
                 writes, dirs, fs>>

\* ------------------------------------------------------ renderPdfToPng
Rasterizers == <<"pdftocairo", "pdftoppm", "convert">>

\* how a run of a rasterizer can end: it cannot be spawned, or it exits with a
\* status, having written the PNG or not
RasterOutcomes ==
  {[exit |-> "spawn", wrote |-> FALSE]}
  \cup [exit : {"nonzero", "zero"}, wrote : BOOLEAN]

\* path.join(os.tmpdir(), base) in place of path.join(tmpRoot, base)
OutPrefixShared(r) == [dir |-> TmpDir(0), base |-> Base(r)]

\* path.join(tmpRoot, base)
OutPrefix(r) == [dir |-> tmpRoot[r], base |-> Base(r)]

\* the file a rasterizer writes: outPrefix + '.png' (pdftocairo and pdftoppm
\* with -singlefile), pngPath (convert)
RasterOutput(r) == Path(OutPrefix(r).dir, OutPrefix(r).base, "png")

\* the try block without the existsSync test
ReturnsOnExit(exit, exists) == exit = "zero"

\* a try block returns pngPath: execFileP resolved and fs.existsSync(pngPath)
Returns(exit, exists) == exit = "zero" /\ exists

\* the try blocks with pdftoppm and convert exchanged
FallbackSwapped(tool) ==
  CASE tool = "pdftocairo" -> "convert"
    [] tool = "convert" -> "pdftoppm"
    [] tool = "pdftoppm" -> "throw"

\* what follows the try block of a tool that did not return
Fallback(tool) ==
  CASE tool = "pdftocairo" -> "pdftoppm"
    [] tool = "pdftoppm" -> "convert"
    [] tool = "convert" -> "throw"

\* one try block of renderPdfToPng
Attempt(r, tool, outcomes) ==
  /\ pc[r] = tool
  /\ \E o \in outcomes :
       LET fs1 == IF o.wrote
                  THEN WriteTo(fs, RasterOutput(r), [kind |-> "png", by |-> tool])
                  ELSE fs
           exists == Exists(fs1, PngPath(r))
       IN  /\ fs' = fs1
           /\ Record(r, [cmd |-> tool, exit |-> o.exit, wrote |-> o.wrote,
                         exists |-> exists])
           /\ Reading(r, {PdfPath(r)} \cup (IF o.exit = "zero" THEN {PngPath(r)} ELSE {}))
           /\ Writing(r, IF o.wrote THEN {RasterOutput(r)} ELSE {})
           /\ IF Returns(o.exit, exists)
              THEN /\ pngPath' = [pngPath EXCEPT ![r] = PngPath(r)]
                   /\ Goto(r, "open")
              ELSE /\ pngPath' = pngPath
                   /\ IF Fallback(tool) = "throw"
                      THEN InnerCatch(r, Error("Error", <<"No rasterizer found">>))
                      ELSE Goto(r, Fallback(tool))
  /\ UNCHANGED <<srcPath, tmpRoot, preamble, err, log, short, opened, dirs>>

Pdftocairo(r, outcomes) == Attempt(r, "pdftocairo", outcomes)
Pdftoppm(r, outcomes) == Attempt(r, "pdftoppm", outcomes)
Convert(r, outcomes) == Attempt(r, "convert", outcomes)

\* executeCommand('vscode.open', imgUri), then webviewPanel.dispose()
VscodeOpen(r) ==
  /\ pc[r] = "open"
  /\ \/ /\ opened' = [opened EXCEPT ![r] = pngPath[r]]
        /\ Goto(r, "done")
     \/ /\ opened' = opened
        /\ InnerCatch(r, Error("Error", <<"command 'vscode.open' failed">>))
  /\ Reading(r, {pngPath[r]})
  /\ UNCHANGED <<srcPath, tmpRoot, preamble, err, log, short, pngPath, commands,
                 writes, dirs, fs>>

\* ------------------------------------------------------ specifications
\* One request, every outcome of every external call.
First == CHOOSE r \in Reqs : \A q \in Reqs : r <= q

Next ==
  \/ ResolveCustomEditor(First) /\ UNCHANGED extractVars
  \/ Mkdtemp(First) /\ UNCHANGED extractVars
  \/ CopyFile(First) /\ UNCHANGED extractVars
  \/ ReadFile(First, BOOLEAN) /\ UNCHANGED extractVars
  \/ WriteFile(First) /\ UNCHANGED extractVars
  \/ Pdflatex(First, PdflatexOutcomes) /\ UNCHANGED extractVars
  \/ ReadLog(First) /\ UNCHANGED extractVars
  \/ Pdftocairo(First, RasterOutcomes) /\ UNCHANGED extractVars
  \/ Pdftoppm(First, RasterOutcomes) /\ UNCHANGED extractVars
  \/ Convert(First, RasterOutcomes) /\ UNCHANGED extractVars
  \/ VscodeOpen(First) /\ UNCHANGED extractVars

Spec == Init /\ [][Next]_vars

\* Requests in flight together, in every interleaving of their awaits.  The
\* source copy is readable and the external tools end in one of a few ways
\* that cover every file they write and every terminal outcome.
PdflatexOutcomesConc ==
  {[exit |-> "spawn", log |-> -1, pdf |-> FALSE, stderr |-> 0],
   [exit |-> "nonzero", log |-> 1, pdf |-> FALSE, stderr |-> 0],
   [exit |-> "zero", log |-> 1, pdf |-> FALSE, stderr |-> 0],
   [exit |-> "zero", log |-> 1, pdf |-> TRUE, stderr |-> 0]}

RasterOutcomesConc ==
  {[exit |-> "spawn", wrote |-> FALSE], [exit |-> "zero", wrote |-> TRUE]}

NextConc ==
  \/ \E r \in Reqs : ResolveCustomEditor(r) /\ UNCHANGED extractVars
  \/ \E r \in Reqs : Mkdtemp(r) /\ UNCHANGED extractVars
  \/ \E r \in Reqs : CopyFile(r) /\ UNCHANGED extractVars
  \/ \E r \in Reqs : ReadFile(r, {TRUE}) /\ UNCHANGED extractVars
  \/ \E r \in Reqs : WriteFile(r) /\ UNCHANGED extractVars
  \/ \E r \in Reqs : Pdflatex(r, PdflatexOutcomesConc) /\ UNCHANGED extractVars
  \/ \E r \in Reqs : ReadLog(r) /\ UNCHANGED extractVars
  \/ \E r \in Reqs : Pdftocairo(r, RasterOutcomesConc) /\ UNCHANGED extractVars
  \/ \E r \in Reqs : Pdftoppm(r, RasterOutcomesConc) /\ UNCHANGED extractVars
  \/ \E r \in Reqs : Convert(r, RasterOutcomesConc) /\ UNCHANGED extractVars
  \/ \E r \in Reqs : VscodeOpen(r) /\ UNCHANGED extractVars

SpecConc == Init /\ [][NextConc]_vars

\* extractMatplotlibPreamble alone, on every text of a few lines.
Lines ==
  { <<>>,
    <<"x">>,
    <<"M">>,
    <<"%", "M">>,
    <<"%", "%", " ", "M">>,
    <<"%", " ", " ", " ", "M">>,
    <<"%", " ", " ", " ">>,
    <<"%", " ", " ", "x">>,
    <<"%", " ", " ", " ", "x">>,
    <<"%", "%", " ", " ", " ", " ", "x", " ">>,
    <<"%", " ", " ", " ", "%", "x">>,
    <<" ", "%", " ", " ", " ", "x">> }

Texts == UNION {[1..n -> Lines] : n \in 0..MaxLines}

InitExtract ==
  /\ InitPipe
  /\ text \in Texts
  /\ result = NotRun

Extract ==
  /\ result = NotRun
  /\ result' = extractMatplotlibPreamble(text)
  /\ UNCHANGED <<text, pipeVars>>

NextExtract == Extract

SpecExtract == InitExtract /\ [][NextExtract]_vars

\* -------------------------------------------------------------- claims
IsRasterizer(c) == c.cmd \in {Rasterizers[i] : i \in 1..Len(Rasterizers)}

\* the rasterizer invocations of a request, in order
RasterCalls(r) == SelectSeq(commands[r], IsRasterizer)

\* an attempt failed: the tool could not be invoked, exited non-zero, or
\* exited zero with no PNG at the expected path
Failed(a) == a.exit = "spawn" \/ a.exit = "nonzero" \/ (a.exit = "zero" /\ ~a.exists)

AllThreeFailed(r) ==
  /\ Len(RasterCalls(r)) = Len(Rasterizers)
  /\ \A i \in 1..Len(RasterCalls(r)) : Failed(RasterCalls(r)[i])

\* renderPdfToPng threw its 'No rasterizer found' error
NoRasterizerThrown(r) == html[r] = [page |-> "pdfOnly", msg |-> <<"No rasterizer found">>]

\* pdflatex exited zero and the PDF is on disk
Compiled(r) ==
  /\ Len(commands[r]) >= 1
  /\ commands[r][1].cmd = "pdflatex"
  /\ commands[r][1].exit = "zero"
  /\ Exists(fs, PdfPath(r))

\* C1: the rasterizer invocations of a request are a prefix of (pdftocairo,
\* pdftoppm, convert), and every invocation but the last one failed: a tool
\* runs only after all tools before it failed, never twice, never after a
\* success.
C1_FixedOrder ==
  \A r \in Reqs :
    LET t == RasterCalls(r)
    IN  /\ Len(t) <= Len(Rasterizers)
        /\ \A i \in 1..Len(t) :
             /\ t[i].cmd = Rasterizers[i]
             /\ i < Len(t) => Failed(t[i])

\* all three tools were invoked, the third one after two failures, and it succeeded
C1_Witness ==
  \E r \in Reqs :
    /\ Len(RasterCalls(r)) = 3
    /\ RasterCalls(r)[3].cmd = "convert"
    /\ pngPath[r] # NoPath

\* C2: once pdflatex succeeded and the PDF exists, a request that ended shows
\* the image whenever renderPdfToPng returned a path, and shows the 'Could not
\* rasterize PDF' page only when all three rasterizer attempts failed.
C2_RasterOutcome ==
  \A r \in Reqs :
    (pc[r] = "done" /\ Compiled(r)) =>
      /\ pngPath[r] # NoPath => (opened[r] = pngPath[r] /\ html[r] = NoPage)
      /\ html[r].page = "pdfOnly" => AllThreeFailed(r)

\* the terminal outcomes a request has produced
Outcomes(r) ==
  {k \in {"image", "pdfOnly", "error"} :
     \/ k = "image" /\ opened[r] # NoPath
     \/ k = "pdfOnly" /\ html[r].page = "pdfOnly"
     \/ k = "error" /\ html[r].page = "error"}

\* C3: whatever fails, resolveCustomEditor throws nothing, a request that
\* ended has exactly one terminal outcome, and one that has not ended has none.
C3_NoEscape ==
  \A r \in Reqs :
    /\ thrown[r] = NoErr
    /\ pc[r] = "done" => Cardinality(Outcomes(r)) = 1
    /\ pc[r] # "done" => Outcomes(r) = {}

\* a request whose mkdtemp failed ended on the error page
C3_Witness ==
  \E r \in Reqs :
    /\ pc[r] = "done"
    /\ tmpRoot[r] = NoDir
    /\ html[r] = [page |-> "error", msg |-> <<"ENOSPC">>]

\* C4: renderPdfToPng throws 'No rasterizer found' exactly when all three
\* attempts failed; it returns a path exactly when the last attempt made did
\* not fail; after a failed first or second attempt the next tool is up.
C4_FailsIffAllFailed ==
  \A r \in Reqs :
    LET t == RasterCalls(r)
    IN  /\ NoRasterizerThrown(r) <=> AllThreeFailed(r)
        /\ pngPath[r] # NoPath <=> (Len(t) >= 1 /\ ~Failed(t[Len(t)]))
        /\ (Len(t) \in 1..2 /\ Failed(t[Len(t)])) => pc[r] = Rasterizers[Len(t) + 1]

\* the three attempts failed in the three ways, and the stage failed
C4_Witness ==
  \E r \in Reqs :
    /\ NoRasterizerThrown(r)
    /\ RasterCalls(r)[1].exit = "spawn"
    /\ RasterCalls(r)[2].exit = "nonzero"
    /\ RasterCalls(r)[3].exit = "zero"

\* the compile stage failed because pdflatex could not run or exited non-zero
PdflatexFailed(r) ==
  /\ pc[r] = "done"
  /\ Len(commands[r]) = 1
  /\ commands[r][1].cmd = "pdflatex"
  /\ commands[r][1].exit # "zero"

\* C5 as stated: the excerpt of every such failure is the first 200
\* characters of the log and '...' when the log is longer, the full log
\* otherwise, and never longer than 203 characters.
C5_Bounded ==
  \A r \in Reqs :
    PdflatexFailed(r) =>
      /\ Len(log[r]) > ShortMax => short[r] = SubSeq(log[r], 1, ShortMax) \o Ellipsis
      /\ Len(log[r]) <= ShortMax => short[r] = log[r]
      /\ Len(short[r]) <= ShortMax + Len(Ellipsis)

\* C5 amended: that holds when the log was read and is not empty; with no
\* log, or an empty one, the excerpt is the message of the error.
C5_BoundedWithLog ==
  \A r \in Reqs :
    PdflatexFailed(r) =>
      /\ (Len(log[r]) > 0) =>
           /\ Len(log[r]) > ShortMax => short[r] = SubSeq(log[r], 1, ShortMax) \o Ellipsis
           /\ Len(log[r]) <= ShortMax => short[r] = log[r]
           /\ Len(short[r]) <= ShortMax + Len(Ellipsis)
      /\ (Len(log[r]) = 0) => short[r] = err[r].text
      /\ html[r] = [page |-> "error", msg |-> <<"Failed to build PGF: ">> \o short[r]]

\* a log of exactly 200 characters was reported whole
C5_Witness ==
  \E r \in Reqs :
    /\ PdflatexFailed(r)
    /\ Len(log[r]) = ShortMax
    /\ Len(short[r]) = ShortMax

\* C6: a zero exit of pdflatex with no PDF on disk ends on the 'PDF not
\* produced' error page, and a rasterizer is invoked, or about to be, only
\* after pdflatex exited zero and the PDF exists.
C6_PdfChecked ==
  \A r \in Reqs :
    /\ ( /\ Len(commands[r]) >= 1
         /\ commands[r][1].exit = "zero"
         /\ ~Exists(fs, PdfPath(r)) )
       => ( /\ pc[r] = "done"
            /\ html[r] = [page |-> "error", msg |-> <<"PDF not produced">>]
            /\ Len(commands[r]) = 1 )
    /\ (Len(RasterCalls(r)) > 0 \/ pc[r] \in {"pdftocairo", "pdftoppm", "convert", "open"})
       => Compiled(r)

\* pdflatex exited zero, wrote a log and no PDF: the request ended in an error
C6_Witness ==
  \E r \in Reqs :
    /\ pc[r] = "done"
    /\ commands[r] = <<[cmd |-> "pdflatex", exit |-> "zero", wrote |-> FALSE, exists |-> FALSE]>>
    /\ Exists(fs, LogPath(r))
    /\ html[r].page = "error"

\* C7: requests in flight together have different workspaces, each writes
\* only into its own, and none reads a path that another one wrote.
C7_Isolated ==
  \A r \in Reqs :
    /\ tmpRoot[r] # NoDir => tmpRoot[r] \in dirs
    /\ \A p \in writes[r] : p.dir = tmpRoot[r]
    /\ \A q \in Reqs \ {r} :
         /\ tmpRoot[r] # NoDir => tmpRoot[r] # tmpRoot[q]
         /\ reads[r] \cap writes[q] = {}

\* two requests for the same source file ran interleaved and each produced
\* its PNG in its own workspace
C7_Witness ==
  \E r \in Reqs : \E q \in Reqs \ {r} :
    /\ srcPath[r] = srcPath[q]
    /\ srcPath[r] # NoPath
    /\ pc[r] = "open" /\ pc[q] = "open"
    /\ Exists(fs, PngPath(r)) /\ Exists(fs, PngPath(q))

\* C8: the workspace of every request that allocated one still exists, with
\* every file the request wrote, in every state, whatever the outcome; and no
\* two requests ever have the same workspace.
C8_Kept ==
  \A r \in Reqs :
    tmpRoot[r] # NoDir =>
      /\ tmpRoot[r] \in dirs
      /\ \A p \in writes[r] : Exists(fs, p)
      /\ \A q \in Reqs \ {r} : tmpRoot[q] # tmpRoot[r]

\* two requests for the same file ended, one on the error page after pdflatex
\* failed and one showing its image, and the files of both are on disk
C8_Witness ==
  \E r \in Reqs : \E q \in Reqs \ {r} :
    /\ pc[r] = "done" /\ html[r].page = "error" /\ Exists(fs, LogPath(r))
    /\ pc[q] = "done" /\ opened[q] # NoPath /\ Exists(fs, PngPath(q))
    /\ srcPath[r] = srcPath[q]
    /\ Exists(fs, TexPath(r)) /\ Exists(fs, DstSrc(r))

\* the lines where the marker is
Markers(lines) == {i \in 1..Len(lines) : MarkerTest(lines[i])}

\* what the claim says extractMatplotlibPreamble returns
Expected(lines) ==
  IF Markers(lines) = {} THEN Null
  ELSE LET m == CHOOSE i \in Markers(lines) : \A j \in Markers(lines) : i <= j
           \* the last line of the maximal run of indented comment lines after m
           k == CHOOSE n \in m..Len(lines) :
                  /\ \A j \in (m + 1)..n : IndentTest(lines[j])
                  /\ n = Len(lines) \/ ~IndentTest(lines[n + 1])
           block == [j \in 1..(k - m) |-> StripComment(lines[m + j])]
           trimmed == Trim(JoinLines(block))
       IN  IF trimmed = <<>> THEN Null ELSE Str(trimmed)

\* C9: extractMatplotlibPreamble returns null when no line is a marker;
\* otherwise the de-commented, trimmed run of indented comment lines right
\* after the first marker, up to the first line that is not one, or null when
\* that is empty.
C9_Extract == result # NotRun => result = Expected(text)

\* the run after the marker was cut at a plain line, and an indented comment
\* line after that line was left out
C9_Witness ==
  /\ Len(text) = 4
  /\ MarkerTest(text[1])
  /\ IndentTest(text[2]) /\ ~IndentTest(text[3]) /\ IndentTest(text[4])
  /\ StripComment(text[4]) # <<>>
  /\ result = Str(<<"x">>)

\* C10: the path renderPdfToPng returns names a file in the workspace of the
\* request that the attempt which returned it wrote itself.
C10_FreshPng ==
  \A r \in Reqs :
    pngPath[r] # NoPath =>
      LET t == RasterCalls(r)
      IN  /\ Exists(fs, pngPath[r])
          /\ pngPath[r].dir = tmpRoot[r]
          /\ t[Len(t)].wrote
          /\ fs[pngPath[r]].by = t[Len(t)].cmd

====
